---------------------------- MODULE Spec2Model ----------------------------
(***************************************************************************)
(* Renderer-side glue of the desktop client, as state machines:            *)
(*                                                                         *)
(*   SpecDeploy     lib/pod/DeployPodToKube.svelte  (onMount, deployToKube, *)
(*                  updatePod, onDestroy and the form controls)            *)
(*   SpecAuth       the authenticationProviders store and its refresh      *)
(*   SpecResources  the Resources settings page (providerInfos subscriber, *)
(*                  restartingQueue, containerConnectionStatus)            *)
(*   SpecPod        lib/pod/PodDetails.svelte (podsInfos subscriber and    *)
(*                  the PodActions callbacks)                              *)
(*                                                                         *)
(* One action is one JavaScript macrotask/microtask run: the code between  *)
(* two awaits, or a whole synchronous handler.  A call to the bridge        *)
(* is issued by the action that reaches it and settled, resolved or        *)
(* rejected, by the environment in a later action.                         *)
(***************************************************************************)
EXTENDS Integers, Sequences, FiniteSets, TLC

VARIABLES
  \* ---- DeployPodToKube.svelte: component state
  bodyPod, defaultContextName, currentNamespace, allNamespaces,
  openshiftConsoleURL, deployUsingServices, deployUsingRoutes,
  deployStarted, deployFinished, deployError, createdPod, createdRoutes,
  updatePodInterval,
  \* ---- DeployPodToKube.svelte: control state of the async functions
  mountPc,            \* where onMount is
  deployPc,           \* where deployToKube is
  servicesToCreate, routesToCreate, eventProperties, loopIdx,  \* its locals
  polls,              \* kubernetesReadNamespacedPod calls in flight
  destroyed,          \* onDestroy has run
  \* ---- DeployPodToKube.svelte: environment
  timers,             \* interval timers that are active
  timerSeq,           \* number of setInterval calls so far
  clusterPhase,       \* status.phase of the pod in the cluster
  \* ---- DeployPodToKube.svelte: history
  calls,              \* what the current deployToKube call did, in order
  runningEvent,       \* the last 'deployToKube.running' telemetry event
  deployInput,        \* what the current deployToKube call started from
  podDeploys,         \* deployToKube calls made on a loaded bodyPod
  mountRejected,      \* the onMount bridge calls that rejected
  readsAfterDestroy,  \* kubernetesReadNamespacedPod started after onDestroy
  \* ---- stores/authenticationProviders
  authenticationProviders,  \* the value of the store
  authBackend,        \* the providers the main process knows
  authFetches,        \* one fetchAuthenticationProvidersInfo per event
  \* ---- the Resources settings page
  providers, containerConnectionStatus, restartingQueue, isStatusUpdated,
  queuedSeq,          \* number of addConnectionToRestartingQueue calls
  startCalls,         \* the window.startProviderConnectionLifecycle calls
  subscriberTrace,    \* the entries the subscriber set in its last run
  \* ---- PodDetails.svelte
  podName, engineId, kind, pod,
  podsInfos,          \* the value of the store
  podLastOp,          \* the handler that ran last
  podBefore           \* pod before that handler ran

deployVars ==
  <<bodyPod, defaultContextName, currentNamespace, allNamespaces,
    openshiftConsoleURL, deployUsingServices, deployUsingRoutes,
    deployStarted, deployFinished, deployError, createdPod, createdRoutes,
    updatePodInterval, mountPc, deployPc, servicesToCreate, routesToCreate,
    eventProperties, loopIdx, polls, destroyed, timers, timerSeq,
    clusterPhase, calls, runningEvent, deployInput, podDeploys,
    mountRejected, readsAfterDestroy>>

authVars == <<authenticationProviders, authBackend, authFetches>>

resourceVars ==
  <<providers, containerConnectionStatus, restartingQueue, isStatusUpdated,
    queuedSeq, startCalls, subscriberTrace>>

podVars ==
  <<podName, engineId, kind, pod, podsInfos, podLastOp, podBefore>>

vars == <<deployVars, authVars, resourceVars, podVars>>

(***************************************************************************)
(* Bounds                                                                  *)
(***************************************************************************)
MaxPolls == 2        \* kubernetesReadNamespacedPod calls in flight at once
MaxEvents == 3       \* refresh events of the authentication store
MaxRestarts == 2     \* addConnectionToRestartingQueue calls
MaxPods == 2         \* entries of one podsInfos emission

(***************************************************************************)
(* JavaScript values                                                       *)
(***************************************************************************)
\* `undefined` where an object is expected
Undefined == [kind |-> "undefined"]

IsDefined(v) == v.kind # "undefined"

\* a string is truthy unless it is undefined or empty
Truthy(s) == s \notin {"undefined", ""}

\* delete r[f]
Delete(r, f) == [k \in DOMAIN r \ {f} |-> r[k]]

Has(r, f) == f \in DOMAIN r

RECURSIVE Flatten(_)
Flatten(ss) == IF ss = <<>> THEN <<>> ELSE Head(ss) \o Flatten(Tail(ss))

Map(s, F(_)) == [i \in 1..Len(s) |-> F(s[i])]

IsPrefix(s, t) == Len(s) <= Len(t) /\ \A i \in 1..Len(s) : s[i] = t[i]

(***************************************************************************)
(* DeployPodToKube.svelte: data                                            *)
(*                                                                         *)
(* A pod is what jsYaml.load gives for the YAML of `podman generate kube`: *)
(* metadata.name, optional metadata.creationTimestamp, optional            *)
(* spec.volumes, and spec.containers, each with optional volumeMounts and  *)
(* its ports.  A port has a containerPort and optionally a hostPort, a     *)
(* protocol and a name.  The generator omits hostPort when it is not set,  *)
(* so a hostPort that is present is a positive number (truthy in           *)
(* JavaScript).                                                            *)
(***************************************************************************)
PodNames == {"api"}

Namespaces == <<"default", "dev">>

ConsoleURL == "https://console.example"

Errors == {[kind |-> "Error", message |-> "forbidden"]}

\* deployError = ''
NoError == [kind |-> "empty"]

Phases == {"Pending", "Running", "Failed"}

HttpPort == [containerPort |-> 80, hostPort |-> 8080]

AdminPort == [containerPort |-> 9000]

DnsPort ==
  [containerPort |-> 53, hostPort |-> 5353, protocol |-> "UDP",
   name |-> "dns"]

\* the same hostPort as HttpPort, over UDP
QuicPort == [containerPort |-> 443, hostPort |-> 8080, protocol |-> "UDP"]

GeneratedPods ==
  { [kind |-> "Pod", name |-> "web",
     containers |-> <<[ports |-> <<AdminPort>>]>>],
    [kind |-> "Pod", name |-> "web", creationTimestamp |-> "string",
     containers |-> <<[ports |-> <<DnsPort, AdminPort>>]>>],
    [kind |-> "Pod", name |-> "web", volumes |-> "volumes",
     containers |-> <<[volumeMounts |-> "mounts", ports |-> <<HttpPort>>],
                      [ports |-> <<AdminPort, QuicPort>>]>>] }

\* the ports in the order of the two nested forEach loops
PortsOf(body) == Flatten(Map(body.containers, LAMBDA c : c.ports))

\* if (port.hostPort)
HasHostPort(port) == Has(port, "hostPort")

\* `${bodyPod.metadata.name}-${port.hostPort}`
ObjectName(name, port) == <<name, "-", port.hostPort>>

\* ServiceOf with port and targetPort taken from the wrong fields
ServiceOfSwappedPorts(name, namespace, port) ==
  [apiVersion |-> "v1",
   kind |-> "Service",
   metadata |-> [name |-> <<name, "-", port.hostPort>>,
                 namespace |-> namespace],
   spec |-> [ports |-> <<[name |-> IF Has(port, "name") THEN port.name
                                    ELSE "undefined",
                          port |-> port.containerPort,
                          protocol |-> IF Has(port, "protocol")
                                       THEN port.protocol ELSE "TCP",
                          targetPort |-> port.hostPort]>>,
             selector |-> [app |-> name]]]

ServiceOf(name, namespace, port) ==
  [apiVersion |-> "v1",
   kind |-> "Service",
   metadata |-> [name |-> ObjectName(name, port), namespace |-> namespace],
   spec |-> [ports |-> <<[name |-> IF Has(port, "name") THEN port.name
                                    ELSE "undefined",
                          port |-> port.hostPort,
                          protocol |-> IF Has(port, "protocol")
                                       THEN port.protocol ELSE "TCP",
                          targetPort |-> port.containerPort]>>,
             selector |-> [app |-> name]]]

RouteOf(name, namespace, port) ==
  [apiVersion |-> "route.openshift.io/v1",
   kind |-> "Route",
   metadata |-> [name |-> ObjectName(name, port), namespace |-> namespace],
   spec |-> [port |-> [targetPort |-> port.containerPort],
             to |-> [kind |-> "Service", name |-> ObjectName(name, port)]]]

\* servicesToCreate after the loops of deployToKube
ServicesFor(body, namespace, usingServices) ==
  IF usingServices
  THEN Map(SelectSeq(PortsOf(body), HasHostPort),
           LAMBDA p : ServiceOf(body.name, namespace, p))
  ELSE <<>>

\* RoutesFor without the test of deployUsingRoutes
RoutesForIgnoringOption(body, namespace, usingServices, usingRoutes, consoleURL) ==
  IF usingServices /\ Truthy(consoleURL)
  THEN Map(SelectSeq(PortsOf(body), HasHostPort),
           LAMBDA p : RouteOf(body.name, namespace, p))
  ELSE <<>>

\* routesToCreate after the loops of deployToKube
RoutesFor(body, namespace, usingServices, usingRoutes, consoleURL) ==
  IF usingServices /\ Truthy(consoleURL) /\ usingRoutes
  THEN Map(SelectSeq(PortsOf(body), HasHostPort),
           LAMBDA p : RouteOf(body.name, namespace, p))
  ELSE <<>>

\* container.volumeMounts and port.hostPort deleted
StripContainer(c) ==
  [Delete(c, "volumeMounts") EXCEPT
     !.ports = Map(c.ports, LAMBDA p : Delete(p, "hostPort"))]

\* bodyPod after the synchronous part of deployToKube
StripPod(body, usingServices) ==
  LET noVolumes == Delete(body, "volumes")
      stripped ==
        IF usingServices
        THEN [noVolumes EXCEPT
                !.containers = Map(noVolumes.containers, StripContainer)]
        ELSE noVolumes
  IN  IF Has(stripped, "creationTimestamp")
      THEN [stripped EXCEPT !.creationTimestamp = "Date"]
      ELSE stripped

\* eventProperties
EventProperties(usingServices, usingRoutes, consoleURL) ==
  IF Truthy(consoleURL)
  THEN [useServices |-> usingServices, useRoutes |-> usingRoutes,
        isOpenshift |-> TRUE]
  ELSE [useServices |-> usingServices, useRoutes |-> usingRoutes]

(***************************************************************************)
(* DeployPodToKube.svelte: initial state and onMount                       *)
(***************************************************************************)
DeployInit ==
  /\ bodyPod = Undefined
  /\ defaultContextName = "undefined"
  /\ currentNamespace = "undefined"
  /\ allNamespaces = Undefined
  /\ openshiftConsoleURL = "undefined"
  /\ deployUsingServices = TRUE
  /\ deployUsingRoutes = TRUE
  /\ deployStarted = FALSE
  /\ deployFinished = FALSE
  /\ deployError = NoError
  /\ createdPod = Undefined
  /\ createdRoutes = <<>>
  /\ updatePodInterval = <<>>
  /\ mountPc = "start"
  /\ deployPc = "idle"
  /\ servicesToCreate = <<>>
  /\ routesToCreate = <<>>
  /\ eventProperties = Undefined
  /\ loopIdx = 0
  /\ polls = [p \in Phases |-> 0]
  /\ destroyed = FALSE
  /\ timers = {}
  /\ timerSeq = 0
  /\ clusterPhase = "Pending"
  /\ calls = <<>>
  /\ runningEvent = Undefined
  /\ deployInput = Undefined
  /\ podDeploys = "none"
  /\ mountRejected = {}
  /\ readsAfterDestroy = FALSE

\* the variables of the other components
OtherThanDeploy == <<authVars, resourceVars, podVars>>

\* the state of deployToKube, updatePod and the timer
deployState ==
  <<deployStarted, deployFinished, deployError, createdPod, createdRoutes,
    updatePodInterval, deployPc, servicesToCreate, routesToCreate,
    eventProperties, loopIdx, polls, timers, timerSeq, clusterPhase, calls,
    runningEvent, deployInput, podDeploys, readsAfterDestroy>>

\* onMount starts: window.generatePodmanKube is awaited
Mount ==
  /\ mountPc = "start"
  /\ mountPc' = "generatePodmanKube"
  /\ UNCHANGED <<bodyPod, defaultContextName, currentNamespace,
                 allNamespaces, openshiftConsoleURL, deployUsingServices,
                 deployUsingRoutes, destroyed, mountRejected, deployState,
                 OtherThanDeploy>>

\* a call awaited outside any try block rejects: onMount ends there
MountAborted ==
  /\ mountPc \in {"generatePodmanKube", "kubernetesGetCurrentContextName",
                  "kubernetesGetCurrentNamespace"}
  /\ mountRejected' = mountRejected \cup {mountPc}
  /\ mountPc' = "aborted"
  /\ UNCHANGED <<bodyPod, defaultContextName, currentNamespace,
                 allNamespaces, openshiftConsoleURL, deployUsingServices,
                 deployUsingRoutes, destroyed, deployState, OtherThanDeploy>>

\* kubeDetails = kubeResult; bodyPod = jsYaml.load(kubeDetails)
GenerateResolved ==
  /\ mountPc = "generatePodmanKube"
  /\ \E generated \in GeneratedPods : bodyPod' = generated
  /\ mountPc' = "kubernetesGetCurrentContextName"
  /\ UNCHANGED <<defaultContextName, currentNamespace, allNamespaces,
                 openshiftConsoleURL, deployUsingServices, deployUsingRoutes,
                 destroyed, mountRejected, deployState, OtherThanDeploy>>

ContextResolved ==
  /\ mountPc = "kubernetesGetCurrentContextName"
  /\ defaultContextName' = "kind-cluster"
  /\ mountPc' = "kubernetesGetCurrentNamespace"
  /\ UNCHANGED <<bodyPod, currentNamespace, allNamespaces,
                 openshiftConsoleURL, deployUsingServices, deployUsingRoutes,
                 destroyed, mountRejected, deployState, OtherThanDeploy>>

\* if (!currentNamespace) currentNamespace = 'default'
NamespaceOrDefault(answer) == IF Truthy(answer) THEN answer ELSE "default"

NamespaceResolved ==
  /\ mountPc = "kubernetesGetCurrentNamespace"
  /\ \E answer \in {"undefined", "dev"} :
       currentNamespace' = NamespaceOrDefault(answer)
  /\ mountPc' = "kubernetesListNamespaces"
  /\ UNCHANGED <<bodyPod, defaultContextName, allNamespaces,
                 openshiftConsoleURL, deployUsingServices, deployUsingRoutes,
                 destroyed, mountRejected, deployState, OtherThanDeploy>>

ListNamespacesResolved ==
  /\ mountPc = "kubernetesListNamespaces"
  /\ allNamespaces' = [kind |-> "NamespaceList", items |-> Namespaces]
  /\ mountPc' = "kubernetesReadNamespacedConfigMap"
  /\ UNCHANGED <<bodyPod, defaultContextName, currentNamespace,
                 openshiftConsoleURL, deployUsingServices, deployUsingRoutes,
                 destroyed, mountRejected, deployState, OtherThanDeploy>>

\* ListNamespacesRejected without the try block: onMount ends there
ListNamespacesRejectedUncaught ==
  /\ mountPc = "kubernetesListNamespaces"
  /\ mountRejected' = mountRejected \cup {mountPc}
  /\ mountPc' = "aborted"
  /\ UNCHANGED <<bodyPod, defaultContextName, currentNamespace,
                 allNamespaces, openshiftConsoleURL, deployUsingServices,
                 deployUsingRoutes, destroyed, deployState, OtherThanDeploy>>

\* catch (error) { console.debug(...) } of the first try block
ListNamespacesRejected ==
  /\ mountPc = "kubernetesListNamespaces"
  /\ mountRejected' = mountRejected \cup {mountPc}
  /\ mountPc' = "kubernetesReadNamespacedConfigMap"
  /\ UNCHANGED <<bodyPod, defaultContextName, currentNamespace,
                 allNamespaces, openshiftConsoleURL, deployUsingServices,
                 deployUsingRoutes, destroyed, deployState, OtherThanDeploy>>

\* openshiftConsoleURL = openshiftConfigMap?.data?.consoleURL
ConfigMapResolved ==
  /\ mountPc = "kubernetesReadNamespacedConfigMap"
  /\ \E consoleURL \in {"undefined", ConsoleURL} :
       openshiftConsoleURL' = consoleURL
  /\ mountPc' = "done"
  /\ UNCHANGED <<bodyPod, defaultContextName, currentNamespace,
                 allNamespaces, deployUsingServices, deployUsingRoutes,
                 destroyed, mountRejected, deployState, OtherThanDeploy>>

\* catch (error) { console.debug(...) } of the second try block
ConfigMapRejected ==
  /\ mountPc = "kubernetesReadNamespacedConfigMap"
  /\ mountRejected' = mountRejected \cup {mountPc}
  /\ mountPc' = "done"
  /\ UNCHANGED <<bodyPod, defaultContextName, currentNamespace,
                 allNamespaces, openshiftConsoleURL, deployUsingServices,
                 deployUsingRoutes, destroyed, deployState, OtherThanDeploy>>

(***************************************************************************)
(* DeployPodToKube.svelte: the form controls                               *)
(*                                                                         *)
(* The controls stay on the page for the component's whole life.  Two     *)
(* kinds of edit are not explored.  Once a deployment has succeeded,       *)
(* deployStarted is never reset and the Deploy button is gone for good, so *)
(* nothing but the properties of updatePod's telemetry event reads the     *)
(* form again.  And while deployToKube awaits the bridge it reads, of the  *)
(* form, currentNamespace only: an edit of the pod name or of a checkbox   *)
(* made meanwhile leads to the state that the same edit made right after   *)
(* the call leads to.                                                      *)
(***************************************************************************)
mountState ==
  <<mountPc, defaultContextName, allNamespaces, openshiftConsoleURL,
    mountRejected>>

FormInUse == ~destroyed /\ timerSeq = 0

FormAtRest == FormInUse /\ deployPc = "idle"

\* <input bind:value="{bodyPod.metadata.name}">, rendered {#if bodyPod}
EditPodName ==
  /\ FormAtRest
  /\ IsDefined(bodyPod)
  /\ \E name \in PodNames \cup {""} :
       /\ name # bodyPod.name
       /\ bodyPod' = [bodyPod EXCEPT !.name = name]
  /\ UNCHANGED <<currentNamespace, deployUsingServices, deployUsingRoutes,
                 destroyed, mountState, deployState, OtherThanDeploy>>

\* <input type="checkbox" bind:checked="{deployUsingServices}">
ToggleUseServices ==
  /\ FormAtRest
  /\ deployUsingServices' = ~deployUsingServices
  /\ UNCHANGED <<bodyPod, currentNamespace, deployUsingRoutes, destroyed,
                 mountState, deployState, OtherThanDeploy>>

\* <input type="checkbox" bind:checked="{deployUsingRoutes}">, rendered
\* {#if openshiftConsoleURL}
ToggleUseRoutes ==
  /\ FormAtRest
  /\ Truthy(openshiftConsoleURL)
  /\ deployUsingRoutes' = ~deployUsingRoutes
  /\ UNCHANGED <<bodyPod, currentNamespace, deployUsingServices, destroyed,
                 mountState, deployState, OtherThanDeploy>>

\* <select bind:value="{currentNamespace}">, rendered {#if allNamespaces}
SelectNamespace ==
  /\ FormInUse
  /\ IsDefined(allNamespaces)
  /\ \E i \in DOMAIN allNamespaces.items :
       /\ allNamespaces.items[i] # currentNamespace
       /\ currentNamespace' = allNamespaces.items[i]
  /\ UNCHANGED <<bodyPod, deployUsingServices, deployUsingRoutes, destroyed,
                 mountState, deployState, OtherThanDeploy>>

(***************************************************************************)
(* DeployPodToKube.svelte: deployToKube                                    *)
(***************************************************************************)
formState ==
  <<defaultContextName, currentNamespace, allNamespaces, openshiftConsoleURL,
    deployUsingServices, deployUsingRoutes, mountPc, mountRejected>>

LastCall == calls[Len(calls)]

Settled(ok) == [op |-> "settled", ok |-> ok]

\* clearInterval(updatePodInterval)
ClearInterval == timers \ {updatePodInterval}

\* NextCall with a single loop that creates each Service and then its Route
NextCallInterleaved(stage, i, services, routes) ==
  IF stage = "services" /\ i > 1 /\ i - 1 <= Len(routes)
  THEN <<"route", i - 1>>
  ELSE IF i <= Len(services) THEN <<"service", i>>
  ELSE <<"end", 0>>

\* The bridge call the try block of deployToKube makes next, when the call
\* of loop `stage` at index i - 1 has resolved: the two for loops, one after
\* the other, then the end of the block.
NextCall(stage, i, services, routes) ==
  IF stage = "services" /\ i <= Len(services) THEN <<"service", i>>
  ELSE IF stage = "services" /\ routes # <<>> THEN <<"route", 1>>
  ELSE IF stage = "routes" /\ i <= Len(routes) THEN <<"route", i>>
  ELSE <<"end", 0>>

\* deployToKube from the resolution of an awaited call to its next await,
\* or to its end: window.telemetryTrack and setInterval(updatePod, 2000)
Continue(log, stage, i) ==
  LET next == NextCall(stage, i, servicesToCreate, routesToCreate)
  IN  CASE next[1] = "service" ->
             /\ deployPc' = "kubernetesCreateService"
             /\ loopIdx' = next[2]
             /\ calls' = Append(log, [op |-> "kubernetesCreateService",
                                      namespace |-> currentNamespace,
                                      body |-> servicesToCreate[next[2]]])
             /\ UNCHANGED <<updatePodInterval, timers, timerSeq>>
        [] next[1] = "route" ->
             /\ deployPc' = "openshiftCreateRoute"
             /\ loopIdx' = next[2]
             /\ calls' = Append(log, [op |-> "openshiftCreateRoute",
                                      namespace |-> currentNamespace,
                                      body |-> routesToCreate[next[2]]])
             /\ UNCHANGED <<updatePodInterval, timers, timerSeq>>
        [] OTHER ->
             /\ deployPc' = "idle"
             /\ loopIdx' = 0
             /\ calls' = log \o <<[op |-> "telemetryTrack",
                                   event |-> "deployToKube",
                                   properties |-> eventProperties],
                                  [op |-> "setInterval"]>>
             /\ timerSeq' = timerSeq + 1
             /\ updatePodInterval' = <<timerSeq + 1>>
             /\ timers' = timers \cup {<<timerSeq + 1>>}

\* DeployCatch without the reset of deployStarted
DeployCatchKeepingStarted(error) ==
  /\ calls' = calls \o <<[op |-> "settled", ok |-> FALSE],
                         [op |-> "telemetryTrack", event |-> "deployToKube",
                          properties |->
                            [p \in DOMAIN eventProperties
                                     \cup {"errorMessage"} |->
                               IF p = "errorMessage" THEN error.message
                               ELSE eventProperties[p]]]>>
  /\ deployError' = error
  /\ deployFinished' = FALSE
  /\ deployPc' = "idle"
  /\ loopIdx' = 0
  /\ UNCHANGED <<deployStarted, createdPod, createdRoutes,
                 updatePodInterval, timers, timerSeq, clusterPhase>>

\* the catch block of deployToKube
DeployCatch(error) ==
  /\ calls' = calls \o <<Settled(FALSE),
                         [op |-> "telemetryTrack", event |-> "deployToKube",
                          properties |->
                            [p \in DOMAIN eventProperties
                                     \cup {"errorMessage"} |->
                               IF p = "errorMessage" THEN error.message
                               ELSE eventProperties[p]]]>>
  /\ deployError' = error
  /\ deployStarted' = FALSE
  /\ deployFinished' = FALSE
  /\ deployPc' = "idle"
  /\ loopIdx' = 0
  /\ UNCHANGED <<createdPod, createdRoutes, updatePodInterval, timers,
                 timerSeq, clusterPhase>>

\* The Deploy button, rendered {#if !deployStarted} and disabled while the
\* pod name is empty: deployToKube up to its first await.  With bodyPod
\* still undefined and the services option checked, bodyPod.spec throws a
\* TypeError before the try block and the call ends there.
DeployClick ==
  /\ ~destroyed
  /\ ~deployStarted
  /\ ~(IsDefined(bodyPod) /\ bodyPod.name = "")
  /\ deployStarted' = TRUE
  /\ deployFinished' = FALSE
  /\ deployError' = NoError
  /\ createdPod' = Undefined
  /\ timers' = ClearInterval
  /\ createdRoutes' = <<>>
  /\ deployInput' = [kind |-> "deployToKube",
                     body |-> bodyPod,
                     first |-> IsDefined(bodyPod) /\ podDeploys = "none",
                     namespace |-> currentNamespace,
                     useServices |-> deployUsingServices,
                     useRoutes |-> deployUsingRoutes,
                     consoleURL |-> openshiftConsoleURL]
  /\ podDeploys' = IF IsDefined(bodyPod) THEN "some" ELSE podDeploys
  /\ IF ~IsDefined(bodyPod)
     THEN /\ servicesToCreate' = <<>>
          /\ routesToCreate' = <<>>
          /\ bodyPod' = bodyPod
          /\ IF deployUsingServices
             THEN /\ calls' = <<[op |-> "TypeError"]>>
                  /\ deployPc' = "idle"
                  /\ eventProperties' = Undefined
             ELSE /\ calls' = <<[op |-> "kubernetesCreatePod",
                                 namespace |-> currentNamespace,
                                 body |-> bodyPod]>>
                  /\ deployPc' = "kubernetesCreatePod"
                  /\ eventProperties' =
                       EventProperties(deployUsingServices,
                                       deployUsingRoutes, openshiftConsoleURL)
     ELSE /\ servicesToCreate' =
               ServicesFor(bodyPod, currentNamespace, deployUsingServices)
          /\ routesToCreate' =
               RoutesFor(bodyPod, currentNamespace, deployUsingServices,
                         deployUsingRoutes, openshiftConsoleURL)
          /\ bodyPod' = StripPod(bodyPod, deployUsingServices)
          /\ eventProperties' =
               EventProperties(deployUsingServices, deployUsingRoutes,
                               openshiftConsoleURL)
          /\ calls' = <<[op |-> "kubernetesCreatePod",
                         namespace |-> currentNamespace,
                         body |-> bodyPod']>>
          /\ deployPc' = "kubernetesCreatePod"
  /\ UNCHANGED <<runningEvent, loopIdx, updatePodInterval, timerSeq, polls, clusterPhase,
                 readsAfterDestroy, destroyed, formState, OtherThanDeploy>>

\* createdPod = await window.kubernetesCreatePod(currentNamespace, bodyPod)
CreatePodResolved ==
  /\ deployPc = "kubernetesCreatePod"
  /\ IsDefined(LastCall.body)
  /\ createdPod' = [kind |-> "Pod", name |-> LastCall.body.name,
                    namespace |-> LastCall.namespace, phase |-> "Pending"]
  /\ clusterPhase' = "Pending"
  /\ Continue(Append(calls, Settled(TRUE)), "services", 1)
  /\ UNCHANGED <<runningEvent, deployStarted, deployFinished, deployError, createdRoutes,
                 servicesToCreate, routesToCreate, eventProperties, polls,
                 deployInput, podDeploys, readsAfterDestroy, bodyPod,
                 destroyed, formState, OtherThanDeploy>>

\* await window.kubernetesCreateService(currentNamespace, service)
CreateServiceResolved ==
  /\ deployPc = "kubernetesCreateService"
  /\ Continue(Append(calls, Settled(TRUE)), "services", loopIdx + 1)
  /\ UNCHANGED <<runningEvent, deployStarted, deployFinished, deployError, createdPod,
                 createdRoutes, servicesToCreate, routesToCreate,
                 eventProperties, polls, clusterPhase, deployInput,
                 podDeploys, readsAfterDestroy, bodyPod, destroyed,
                 formState, OtherThanDeploy>>

\* createdRoute = await window.openshiftCreateRoute(currentNamespace, route);
\* createdRoutes = [...createdRoutes, createdRoute]
CreateRouteResolved ==
  /\ deployPc = "openshiftCreateRoute"
  /\ createdRoutes' = Append(createdRoutes, LastCall.body)
  /\ Continue(Append(calls, Settled(TRUE)), "routes", loopIdx + 1)
  /\ UNCHANGED <<runningEvent, deployStarted, deployFinished, deployError, createdPod,
                 servicesToCreate, routesToCreate, eventProperties, polls,
                 clusterPhase, deployInput, podDeploys, readsAfterDestroy,
                 bodyPod, destroyed, formState, OtherThanDeploy>>

\* the awaited call of the try block rejects
CreateRejected ==
  /\ deployPc \in {"kubernetesCreatePod", "kubernetesCreateService",
                   "openshiftCreateRoute"}
  /\ \E error \in Errors : DeployCatch(error)
  /\ UNCHANGED <<runningEvent, servicesToCreate, routesToCreate, eventProperties, polls,
                 deployInput, podDeploys, readsAfterDestroy, bodyPod,
                 destroyed, formState, OtherThanDeploy>>

(***************************************************************************)
(* DeployPodToKube.svelte: updatePod, the timer and onDestroy              *)
(***************************************************************************)
PollsInFlight == polls["Pending"] + polls["Running"] + polls["Failed"]

\* The interval timer fires: updatePod up to its await.  The read is
\* answered with the phase the pod has in the cluster now; the answers are
\* delivered in any order.
TimerTick ==
  /\ timers # {}
  /\ PollsInFlight < MaxPolls
  /\ polls' = [polls EXCEPT ![clusterPhase] = @ + 1]
  /\ readsAfterDestroy' = (readsAfterDestroy \/ destroyed)
  /\ UNCHANGED <<runningEvent, deployStarted, deployFinished, deployError, createdPod,
                 createdRoutes, updatePodInterval, deployPc,
                 servicesToCreate, routesToCreate, eventProperties, loopIdx,
                 timers, timerSeq, clusterPhase, calls, deployInput,
                 podDeploys, bodyPod, destroyed, formState, OtherThanDeploy>>

\* updatePod from the resolution of kubernetesReadNamespacedPod to its end
UpdatePodResolved(phase) ==
  /\ polls[phase] > 0
  /\ polls' = [polls EXCEPT ![phase] = @ - 1]
  /\ createdPod' = [createdPod EXCEPT !.phase = phase]
  /\ IF phase = "Running"
     THEN /\ timers' = ClearInterval
          /\ deployFinished' = TRUE
          /\ runningEvent' = [kind |-> "deployToKube.running",
                               useServices |-> deployUsingServices,
                               useRoutes |-> deployUsingRoutes]
     ELSE UNCHANGED <<timers, deployFinished, runningEvent>>
  /\ UNCHANGED <<deployStarted, deployError, createdRoutes,
                 updatePodInterval, deployPc, servicesToCreate,
                 routesToCreate, eventProperties, loopIdx, timerSeq,
                 clusterPhase, calls, deployInput, podDeploys,
                 readsAfterDestroy, bodyPod, destroyed, formState,
                 OtherThanDeploy>>

UpdatePodSettled == \E phase \in Phases : UpdatePodResolved(phase)

\* kubernetesReadNamespacedPod rejects: updatePod ends, nothing catches it
UpdatePodRejected ==
  /\ \E phase \in Phases :
       /\ polls[phase] > 0
       /\ polls' = [polls EXCEPT ![phase] = @ - 1]
  /\ UNCHANGED <<runningEvent, deployStarted, deployFinished, deployError, createdPod,
                 createdRoutes, updatePodInterval, deployPc,
                 servicesToCreate, routesToCreate, eventProperties, loopIdx,
                 timers, timerSeq, clusterPhase, calls, deployInput,
                 podDeploys, readsAfterDestroy, bodyPod, destroyed,
                 formState, OtherThanDeploy>>

\* the cluster runs the pod: Pending, then Running, then possibly Failed
ClusterAdvances ==
  /\ IsDefined(createdPod)
  /\ \/ clusterPhase = "Pending" /\ clusterPhase' \in {"Running", "Failed"}
     \/ clusterPhase = "Running" /\ clusterPhase' = "Failed"
  /\ UNCHANGED <<runningEvent, deployStarted, deployFinished, deployError, createdPod,
                 createdRoutes, updatePodInterval, deployPc,
                 servicesToCreate, routesToCreate, eventProperties, loopIdx,
                 polls, timers, timerSeq, calls, deployInput, podDeploys,
                 readsAfterDestroy, bodyPod, destroyed, formState,
                 OtherThanDeploy>>

\* onDestroy(() => clearInterval(updatePodInterval)); the Done button and
\* any navigation away from the page end this way
Destroy ==
  /\ ~destroyed
  /\ mountPc # "start"
  /\ destroyed' = TRUE
  /\ timers' = ClearInterval
  /\ UNCHANGED <<runningEvent, deployStarted, deployFinished, deployError, createdPod,
                 createdRoutes, updatePodInterval, deployPc,
                 servicesToCreate, routesToCreate, eventProperties, loopIdx,
                 polls, timerSeq, clusterPhase, calls, deployInput,
                 podDeploys, readsAfterDestroy, bodyPod, formState,
                 OtherThanDeploy>>

DeployNext ==
  \/ Mount
  \/ MountAborted
  \/ GenerateResolved
  \/ ContextResolved
  \/ NamespaceResolved
  \/ ListNamespacesResolved
  \/ ListNamespacesRejected
  \/ ConfigMapResolved
  \/ ConfigMapRejected
  \/ EditPodName
  \/ ToggleUseServices
  \/ ToggleUseRoutes
  \/ SelectNamespace
  \/ DeployClick
  \/ CreatePodResolved
  \/ CreateServiceResolved
  \/ CreateRouteResolved
  \/ CreateRejected
  \/ TimerTick
  \/ UpdatePodSettled
  \/ UpdatePodRejected
  \/ ClusterAdvances
  \/ Destroy

(***************************************************************************)
(* The authenticationProviders store                                       *)
(*                                                                         *)
(* authFetches[i] is the fetchAuthenticationProvidersInfo call that the    *)
(* i-th event started: awaiting window.getAuthenticationProvidersInfo      *)
(* ("pending": not yet served by the main process; "answered": served,     *)
(* the answer on its way back), or over ("resolved", "rejected").          *)
(***************************************************************************)
ProviderLists == {<<>>, <<"github">>, <<"github", "gitlab">>}

AuthInit ==
  /\ authenticationProviders = <<>>
  /\ authBackend = <<>>
  /\ authFetches = <<>>

OtherThanAuth == <<deployVars, resourceVars, podVars>>

\* fetchAuthenticationProvidersInfo up to its await
StartFetch(event) ==
  Append(authFetches, [event |-> event, status |-> "pending", answer |-> <<>>])

\* the providers change in the main process, which sends
\* 'authentication-provider-update'
ProviderUpdateEvent ==
  /\ Len(authFetches) < MaxEvents
  /\ \E list \in ProviderLists \ {authBackend} : authBackend' = list
  /\ authFetches' = StartFetch("authentication-provider-update")
  /\ UNCHANGED <<authenticationProviders, OtherThanAuth>>

\* window dispatches 'system-ready', once
SystemReadyEvent ==
  /\ Len(authFetches) < MaxEvents
  /\ \A i \in DOMAIN authFetches : authFetches[i].event # "system-ready"
  /\ authFetches' = StartFetch("system-ready")
  /\ UNCHANGED <<authenticationProviders, authBackend, OtherThanAuth>>

\* the main process serves window.getAuthenticationProvidersInfo
FetchAnswered ==
  \E i \in DOMAIN authFetches :
    /\ authFetches[i].status = "pending"
    /\ authFetches' = [authFetches EXCEPT ![i].status = "answered",
                                          ![i].answer = authBackend]
    /\ UNCHANGED <<authenticationProviders, authBackend, OtherThanAuth>>

\* authenticationProviders.set(authProvidersInfo)
StoreAfterFetch(current, answer) == answer

\* fetchAuthenticationProvidersInfo from the resolution of its await
FetchResolved ==
  \E i \in DOMAIN authFetches :
    /\ authFetches[i].status = "answered"
    /\ authenticationProviders' =
         StoreAfterFetch(authenticationProviders, authFetches[i].answer)
    /\ authFetches' = [authFetches EXCEPT ![i].status = "resolved"]
    /\ UNCHANGED <<authBackend, OtherThanAuth>>

\* window.getAuthenticationProvidersInfo rejects: nothing is set
FetchRejected ==
  \E i \in DOMAIN authFetches :
    /\ authFetches[i].status \in {"pending", "answered"}
    /\ authFetches' = [authFetches EXCEPT ![i].status = "rejected"]
    /\ UNCHANGED <<authenticationProviders, authBackend, OtherThanAuth>>

AuthNext ==
  \/ ProviderUpdateEvent
  \/ SystemReadyEvent
  \/ FetchAnswered
  \/ FetchResolved
  \/ FetchRejected

(***************************************************************************)
(* The Resources settings page                                             *)
(*                                                                         *)
(* A value of the providerInfos store is a list of providers, each with    *)
(* its containerConnections and kubernetesConnections; a connection has a  *)
(* name and a status.                                                      *)
(***************************************************************************)
Statuses == {"started", "stopped"}

Podman == [internalId |-> "0", name |-> "Podman"]

Kind == [internalId |-> "1", name |-> "Kind"]

Connection(name) == {[name |-> name, status |-> s] : s \in Statuses}

ContainerConnectionLists ==
  {<<>>} \cup {<<c>> : c \in Connection("machine")}

KubernetesConnectionLists ==
  {<<>>} \cup {<<c>> : c \in Connection("kind-cluster")}

ProviderInfosValues ==
  {<<>>} \cup
  { <<[internalId |-> Podman.internalId, name |-> Podman.name,
       containerConnections |-> cs, kubernetesConnections |-> <<>>],
      [internalId |-> Kind.internalId, name |-> Kind.name,
       containerConnections |-> <<>>, kubernetesConnections |-> ks]>> :
      cs \in ContainerConnectionLists, ks \in KubernetesConnectionLists }

\* every (provider.internalId, connection name) a restart can be queued for;
\* the last one is of a connection that the page does not list
Restartable ==
  { <<Podman.internalId, "machine">>, <<Kind.internalId, "kind-cluster">>,
    <<Kind.internalId, "machine">> }

\* getProviderConnectionName of ./Util
getProviderConnectionName(provider, connection) ==
  <<provider.name, "-", connection.name>>

ResourceInit ==
  /\ providers = <<>>
  /\ containerConnectionStatus = <<>>
  /\ restartingQueue = <<>>
  /\ isStatusUpdated = FALSE
  /\ queuedSeq = 0
  /\ startCalls = <<>>
  /\ subscriberTrace = <<>>

OtherThanResources == <<deployVars, authVars, podVars>>

\* containerConnectionStatus.has(key) and .get(key), .set(key, value); the
\* Map is a function from its keys
MapHas(map, key) == key \in DOMAIN map

MapGet(map, key) == IF MapHas(map, key) THEN map[key] ELSE Undefined

MapSet(map, key, value) ==
  [k \in DOMAIN map \cup {key} |-> IF k = key THEN value ELSE map[k]]

\* restartingQueue.filter(c => c.provider === provider &&
\*                             c.container === container)[0]
containerToRestart(queue, provider, container) ==
  LET found == SelectSeq(queue, LAMBDA c : /\ c.provider = provider
                                           /\ c.container = container)
  IN  IF found = <<>> THEN Undefined ELSE found[1]

\* getContainerRestarting without the removal from restartingQueue
getContainerRestartingKeepingQueue(queue, provider, container) == queue

\* restartingQueue after getContainerRestarting(provider, container)
getContainerRestarting(queue, provider, container) ==
  IF IsDefined(containerToRestart(queue, provider, container))
  THEN SelectSeq(queue, LAMBDA c : /\ c.provider # provider
                                   /\ c.container # container)
  ELSE queue

\* the condition of the subscriber's if: the status is new or has changed
StatusDiffers(map, key, status) ==
  \/ ~MapHas(map, key)
  \/ ~Has(map[key], "status")
  \/ map[key].status # status

\* The body of one forEach callback of the subscriber, on the state
\* st = [map, queue, calls, trace] that the callbacks before it left.
\* startConnectionProvider runs to its await at once: the call of
\* window.startProviderConnectionLifecycle is made within the callback.
VisitConnection(st, provider, connection) ==
  LET key == getProviderConnectionName(provider, connection)
      entry == containerToRestart(st.queue, provider.internalId,
                                  connection.name)
      call == [kind |-> "startProviderConnectionLifecycle",
               provider |-> provider.internalId,
               connection |-> connection,
               loggerHandlerKey |-> entry.loggerHandlerKey]
      value == IF IsDefined(entry)
               THEN [inProgress |-> TRUE, action |-> "restart",
                     status |-> connection.status]
               ELSE [inProgress |-> FALSE, action |-> "undefined",
                     status |-> connection.status]
  IN  IF StatusDiffers(st.map, key, connection.status)
      THEN [map |-> MapSet(st.map, key, value),
            queue |-> getContainerRestarting(st.queue, provider.internalId,
                                             connection.name),
            calls |-> IF IsDefined(entry) THEN Append(st.calls, call)
                      ELSE st.calls,
            trace |-> Append(st.trace,
                             [provider |-> provider,
                              connection |-> connection,
                              call |-> IF IsDefined(entry) THEN call
                                       ELSE Undefined,
                              set |-> value])]
      ELSE st

RECURSIVE VisitConnections(_, _, _)
VisitConnections(st, provider, connections) ==
  IF connections = <<>> THEN st
  ELSE VisitConnections(VisitConnection(st, provider, Head(connections)),
                        provider, Tail(connections))

\* providers.forEach(provider => { ... }): the container connections of a
\* provider, then its Kubernetes connections
RECURSIVE VisitProviders(_, _)
VisitProviders(st, list) ==
  IF list = <<>> THEN st
  ELSE VisitProviders(
         VisitConnections(
           VisitConnections(st, Head(list), Head(list).containerConnections),
           Head(list), Head(list).kubernetesConnections),
         Tail(list))

\* the subscriber of providerInfos, run at subscription with the store's
\* value and then on every change of the store
ProviderInfosEmits ==
  \E value \in ProviderInfosValues :
    LET st == VisitProviders([map |-> containerConnectionStatus,
                              queue |-> restartingQueue,
                              calls |-> startCalls,
                              trace |-> <<>>],
                             value)
    IN  /\ providers' = value
        /\ containerConnectionStatus' = st.map
        /\ restartingQueue' = st.queue
        /\ startCalls' = st.calls
        /\ subscriberTrace' = st.trace
        /\ isStatusUpdated' = FALSE
        /\ UNCHANGED <<queuedSeq, OtherThanResources>>

\* addConnectionToRestartingQueue(connection), called by
\* PreferencesConnectionActions with a logger key of its own
AddConnectionToRestartingQueue ==
  /\ queuedSeq < MaxRestarts
  /\ \E target \in Restartable :
       restartingQueue' =
         Append(restartingQueue,
                [kind |-> "restart", provider |-> target[1],
                 container |-> target[2],
                 loggerHandlerKey |-> <<"key", queuedSeq + 1>>])
  /\ queuedSeq' = queuedSeq + 1
  /\ UNCHANGED <<providers, containerConnectionStatus, isStatusUpdated,
                 startCalls, subscriberTrace, OtherThanResources>>

\* the connections on the page
RenderedConnections ==
  UNION { { <<providers[i], providers[i].containerConnections[j]>> :
              j \in DOMAIN providers[i].containerConnections }
          \cup
          { <<providers[i], providers[i].kubernetesConnections[j]>> :
              j \in DOMAIN providers[i].kubernetesConnections } :
          i \in DOMAIN providers }

\* updateContainerStatus(provider, containerConnectionInfo, action, error)
updateContainerStatus(map, provider, connection, action, error) ==
  LET key == getProviderConnectionName(provider, connection)
      current == IF MapHas(map, key) THEN map[key] ELSE <<>>
  IN  IF Truthy(error)
      THEN MapSet(map, key,
                  [f \in DOMAIN current \cup {"inProgress", "error"} |->
                     CASE f = "inProgress" -> FALSE
                       [] f = "error" -> error
                       [] OTHER -> current[f]])
      ELSE IF Truthy(action)
      THEN MapSet(map, key, [inProgress |-> TRUE, action |-> action,
                             status |-> connection.status])
      ELSE map

UpdateContainerStatus ==
  /\ \E rendered \in RenderedConnections :
       \E outcome \in {<<"stop", "undefined">>, <<"stop", "failed">>} :
         containerConnectionStatus' =
           updateContainerStatus(containerConnectionStatus, rendered[1],
                                 rendered[2], outcome[1], outcome[2])
  /\ UNCHANGED <<providers, restartingQueue, isStatusUpdated, queuedSeq,
                 startCalls, subscriberTrace, OtherThanResources>>

ResourcesNext ==
  \/ ProviderInfosEmits
  \/ AddConnectionToRestartingQueue
  \/ UpdateContainerStatus

(***************************************************************************)
(* PodDetails.svelte                                                       *)
(*                                                                         *)
(* A value of the podsInfos store is a list of PodInfo: Name, engineId,    *)
(* kind, Status and Id.  The entries below are told apart by what the      *)
(* subscriber looks at: whether they match the component's props, and      *)
(* whether PodUtils.getPodInfoUI can convert them.                         *)
(***************************************************************************)
PodProps ==
  { [podName |-> "web", engineId |-> "podman.1", kind |-> "podman"],
    [podName |-> "web", engineId |-> "podman.1", kind |-> "kubernetes"] }

PodInfos ==
  { [Name |-> "web", engineId |-> "podman.1", kind |-> "podman",
     Status |-> "Running", Id |-> "3f1c"],
    [Name |-> "web", engineId |-> "podman.1", kind |-> "podman",
     Status |-> "Exited", Id |-> "3f1c"],
    \* no Id: getPodInfoUI throws on it
    [Name |-> "web", engineId |-> "podman.1", kind |-> "podman",
     Status |-> "Running"],
    [Name |-> "db", engineId |-> "podman.1", kind |-> "podman",
     Status |-> "Running", Id |-> "77aa"],
    [Name |-> "web", engineId |-> "podman.2", kind |-> "podman",
     Status |-> "Running", Id |-> "90b2"],
    [Name |-> "web", engineId |-> "podman.1", kind |-> "kubernetes",
     Status |-> "Degraded", Id |-> "c4d0"] }

RECURSIVE SeqsUpTo(_, _)
SeqsUpTo(S, n) ==
  IF n = 0 THEN {<<>>}
  ELSE LET shorter == SeqsUpTo(S, n - 1)
       IN  shorter \cup {Append(s, x) : s \in shorter, x \in S}

PodsInfosValues == SeqsUpTo(PodInfos, MaxPods)

\* (podinfo.Status || '').toUpperCase()
ToUpperCase(status) ==
  CASE status = "Running" -> "RUNNING"
    [] status = "Exited" -> "EXITED"
    [] status = "Degraded" -> "DEGRADED"
    [] OTHER -> ""

\* PodUtils.getPodInfoUI of ./pod-utils throws on an entry it cannot read
getPodInfoUIThrows(podinfo) == ~Has(podinfo, "Id")

\* PodUtils.getPodInfoUI of ./pod-utils
getPodInfoUI(podinfo) ==
  [id |-> podinfo.Id,
   name |-> podinfo.Name,
   status |-> ToUpperCase(podinfo.Status),
   engineId |-> podinfo.engineId,
   kind |-> podinfo.kind,
   selected |-> FALSE]

\* the component before its props are set: the other specifications
PodInit ==
  /\ podName = "undefined"
  /\ engineId = "undefined"
  /\ kind = "undefined"
  /\ pod = Undefined
  /\ podsInfos = <<>>
  /\ podLastOp = "none"
  /\ podBefore = Undefined

\* the component constructed with its props
PodDetailsInit ==
  /\ \E props \in PodProps :
       /\ podName = props.podName
       /\ engineId = props.engineId
       /\ kind = props.kind
  /\ pod = Undefined
  /\ podsInfos = <<>>
  /\ podLastOp = "none"
  /\ podBefore = Undefined

OtherThanPod == <<deployVars, authVars, resourceVars>>

\* Matches without the comparison of kind
MatchesIgnoringKind(podInPods) ==
  /\ podInPods.Name = podName
  /\ podInPods.engineId = engineId

\* podInPods => podInPods.Name === podName &&
\*              podInPods.engineId === engineId && kind === podInPods.kind
Matches(podInPods) ==
  /\ podInPods.Name = podName
  /\ podInPods.engineId = engineId
  /\ kind = podInPods.kind

\* pods.find(...): the first entry that matches, or undefined
matchingPod(pods) ==
  LET found == SelectSeq(pods, Matches)
  IN  IF found = <<>> THEN Undefined ELSE found[1]

\* pod after the subscriber has run on pods
PodAfter(current, pods) ==
  IF IsDefined(matchingPod(pods)) /\ ~getPodInfoUIThrows(matchingPod(pods))
  THEN getPodInfoUI(matchingPod(pods))
  ELSE current

\* the subscriber of podsInfos, run at subscription with the store's value
\* and then on every change of the store
PodsInfosEmits ==
  /\ \E pods \in PodsInfosValues :
       /\ podsInfos' = pods
       /\ pod' = PodAfter(pod, pods)
  /\ podLastOp' = "subscriber"
  /\ podBefore' = pod
  /\ UNCHANGED <<podName, engineId, kind, OtherThanPod>>

\* inProgressCallback(inProgress, state), called by PodActions, which is
\* rendered {#if pod}
inProgressCallback(current, inProgress, state) ==
  LET flagged == [f \in DOMAIN current \cup {"actionInProgress"} |->
                    IF f = "actionInProgress" THEN inProgress ELSE current[f]]
  IN  IF Truthy(state) /\ inProgress
      THEN [flagged EXCEPT !.status = "STARTING"]
      ELSE flagged

InProgressCallback ==
  /\ IsDefined(pod)
  /\ \E inProgress \in BOOLEAN, state \in {"undefined", "STARTING"} :
       pod' = inProgressCallback(pod, inProgress, state)
  /\ podLastOp' = "inProgressCallback"
  /\ podBefore' = pod
  /\ UNCHANGED <<podName, engineId, kind, podsInfos, OtherThanPod>>

\* errorCallback(errorMessage), called by PodActions
errorCallback(current, errorMessage) ==
  [f \in DOMAIN current \cup {"actionError"} |->
     CASE f = "actionError" -> errorMessage
       [] f = "status" -> "ERROR"
       [] OTHER -> current[f]]

ErrorCallback ==
  /\ IsDefined(pod)
  /\ pod' = errorCallback(pod, "cannot start the pod")
  /\ podLastOp' = "errorCallback"
  /\ podBefore' = pod
  /\ UNCHANGED <<podName, engineId, kind, podsInfos, OtherThanPod>>

PodNext ==
  \/ PodsInfosEmits
  \/ InProgressCallback
  \/ ErrorCallback

(***************************************************************************)
(* The specifications                                                      *)
(***************************************************************************)
Init == DeployInit /\ AuthInit /\ ResourceInit /\ PodInit

SpecDeploy == Init /\ [][DeployNext]_vars

SpecAuth == Init /\ [][AuthNext]_vars

SpecResources == Init /\ [][ResourcesNext]_vars

\* the state after the construction of PodDetails with its props
InitDetails == DeployInit /\ AuthInit /\ ResourceInit /\ PodDetailsInit

SpecPod == InitDetails /\ [][PodNext]_vars

(***************************************************************************)
(* DeployPodToKube.svelte: properties                                      *)
(***************************************************************************)
CallsOf(op) == SelectSeq(calls, LAMBDA c : c.op = op)

IsCreation(c) ==
  c.op \in {"kubernetesCreatePod", "kubernetesCreateService",
            "openshiftCreateRoute"}

\* the try block of the current deployToKube call has run to its end
Deployed == \E i \in DOMAIN calls : calls[i].op = "setInterval"

\* the current deployToKube call was made on a loaded bodyPod
OnPod == IsDefined(deployInput) /\ IsDefined(deployInput.body)

\* the ports of the pod the current call started from that have a hostPort,
\* container by container
ExposedPorts ==
  IF OnPod
  THEN LET body == deployInput.body
           at == UNION { { <<c, p>> : p \in DOMAIN body.containers[c].ports } :
                         c \in DOMAIN body.containers }
           exposed == { cp \in at :
                          "hostPort" \in
                            DOMAIN body.containers[cp[1]].ports[cp[2]] }
           rank(cp) == Cardinality({ o \in exposed :
                                       \/ o[1] < cp[1]
                                       \/ o[1] = cp[1] /\ o[2] <= cp[2] })
       IN  [i \in 1..Cardinality(exposed) |->
              LET cp == CHOOSE e \in exposed : rank(e) = i
              IN  body.containers[cp[1]].ports[cp[2]]]
  ELSE <<>>

\* the Service of the claim for port p of the pod the call started from
IsServiceFor(service, p) ==
  /\ service.kind = "Service"
  /\ service.metadata.name = <<deployInput.body.name, "-", p.hostPort>>
  /\ service.metadata.namespace = deployInput.namespace
  /\ Len(service.spec.ports) = 1
  /\ service.spec.ports[1].port = p.hostPort
  /\ service.spec.ports[1].targetPort = p.containerPort
  /\ service.spec.ports[1].protocol =
       (IF "protocol" \in DOMAIN p THEN p.protocol ELSE "TCP")
  /\ service.spec.selector = [app |-> deployInput.body.name]

NoHostPortIn(body) ==
  \A c \in DOMAIN body.containers :
    \A p \in DOMAIN body.containers[c].ports :
      "hostPort" \notin DOMAIN body.containers[c].ports[p]

SamePortsIn(body, other) ==
  /\ DOMAIN body.containers = DOMAIN other.containers
  /\ \A c \in DOMAIN body.containers :
       body.containers[c].ports = other.containers[c].ports

\* C1: in the first deployToKube call on the generated pod, with 'Use
\* Kubernetes Services' checked, the Services passed to
\* kubernetesCreateService are, in order, one per port that has a hostPort
\* (name <podName>-<hostPort>, port = hostPort, targetPort = containerPort,
\* protocol = the port's or TCP, selector app = <podName>, namespace = the
\* current namespace): all of them once the call has run to its end, the
\* first ones while it runs or when a creation was rejected; and the pod
\* passed to kubernetesCreatePod has no hostPort.  With the option
\* unchecked no Service is passed and the pod keeps the ports as they were.
ServicesReplaceHostPorts ==
  (OnPod /\ deployInput.first) =>
    LET passed == CallsOf("kubernetesCreateService")
    IN  /\ calls[1].op = "kubernetesCreatePod"
        /\ IF deployInput.useServices
           THEN /\ Len(passed) <= Len(ExposedPorts)
                /\ \A i \in DOMAIN passed :
                     IsServiceFor(passed[i].body, ExposedPorts[i])
                /\ Deployed => Len(passed) = Len(ExposedPorts)
                /\ NoHostPortIn(calls[1].body)
           ELSE /\ passed = <<>>
                /\ SamePortsIn(calls[1].body, deployInput.body)

\* C1 happens: a first call with the option checked has passed two Services
\* and run to its end
ServicesReplaceHostPortsWitness ==
  /\ OnPod /\ deployInput.first /\ deployInput.useServices
  /\ Deployed
  /\ Len(CallsOf("kubernetesCreateService")) = 2

RoutesWanted ==
  /\ IsDefined(deployInput)
  /\ Truthy(deployInput.consoleURL)
  /\ deployInput.useRoutes
  /\ deployInput.useServices

IsRouteFor(route, p) ==
  /\ route.kind = "Route"
  /\ route.metadata.name = <<deployInput.body.name, "-", p.hostPort>>
  /\ route.metadata.namespace = deployInput.namespace
  /\ route.spec.to = [kind |-> "Service", name |-> route.metadata.name]
  /\ route.spec.port.targetPort = p.containerPort

\* a Service with this name and namespace was created before calls[i]
ServiceCreatedBefore(i, metadata) ==
  \E j \in 1..(i - 2) :
    /\ calls[j].op = "kubernetesCreateService"
    /\ calls[j].body.metadata = metadata
    /\ calls[j + 1] = [op |-> "settled", ok |-> TRUE]

\* C2: deployToKube passes Routes to openshiftCreateRoute only when an
\* OpenShift console URL was found and both 'Create OpenShift routes' and
\* 'Use Kubernetes Services' are checked; then the Routes are, in order,
\* one per Service of the call, with the Service's name and namespace,
\* spec.to naming it and targetPort = the port's containerPort: all of them
\* once the call has run to its end, the first ones while it runs or when a
\* creation was rejected.  Every Route refers to a Service that the same
\* call created before.
RoutesFollowServices ==
  IsDefined(deployInput) =>
    LET routes == CallsOf("openshiftCreateRoute")
        services == CallsOf("kubernetesCreateService")
    IN  /\ ~RoutesWanted => routes = <<>> /\ createdRoutes = <<>>
        /\ Len(routes) <= Len(ExposedPorts)
        /\ \A i \in DOMAIN routes :
             /\ IsRouteFor(routes[i].body, ExposedPorts[i])
             /\ routes[i].body.metadata = services[i].body.metadata
        /\ \A i \in DOMAIN calls :
             calls[i].op = "openshiftCreateRoute" =>
               ServiceCreatedBefore(i, calls[i].body.metadata)
        /\ Len(createdRoutes) <= Len(routes)
        /\ (Deployed /\ RoutesWanted) =>
             /\ Len(routes) = Len(services)
             /\ Len(createdRoutes) = Len(services)

\* C2 happens: a call has created two Services and a Route for each
RoutesFollowServicesWitness ==
  /\ RoutesWanted
  /\ Deployed
  /\ Len(createdRoutes) = 2
  /\ Len(CallsOf("kubernetesCreateService")) = 2

SettledOk == [op |-> "settled", ok |-> TRUE]

SettledFailed == [op |-> "settled", ok |-> FALSE]

\* the 'deployToKube' telemetry event of a successful call
IsSuccessEvent(c) ==
  /\ c.op = "telemetryTrack"
  /\ c.event = "deployToKube"
  /\ "errorMessage" \notin DOMAIN c.properties

\* the 'deployToKube' telemetry event of the catch block
IsErrorEvent(c) ==
  /\ c.op = "telemetryTrack"
  /\ c.event = "deployToKube"
  /\ "errorMessage" \in DOMAIN c.properties

\* the order of the bridge calls: the pod, then the Services, then the Routes
Stage(c) ==
  CASE c.op = "kubernetesCreatePod" -> 1
    [] c.op = "kubernetesCreateService" -> 2
    [] c.op = "openshiftCreateRoute" -> 3

\* C3: deployToKube makes its bridge calls one at a time and in a fixed
\* order: kubernetesCreatePod first, then kubernetesCreateService for each
\* Service, then openshiftCreateRoute for each Route, each call made only
\* when the one before it has resolved; the telemetry event of a successful
\* deployment is sent and the polling timer started only when the pod,
\* every Service and every Route have been created.
BridgeCallsInOrder ==
  /\ \A i \in DOMAIN calls :
       /\ calls[i].op = "kubernetesCreatePod" => i = 1
       /\ (IsCreation(calls[i]) /\ i > 1) =>
            /\ calls[i - 1] = SettledOk
            /\ IsCreation(calls[i - 2])
            /\ Stage(calls[i - 2]) <= Stage(calls[i])
       /\ (IsCreation(calls[i]) /\ i < Len(calls)) =>
            calls[i + 1].op = "settled"
       /\ calls[i].op = "settled" => i > 1 /\ IsCreation(calls[i - 1])
       /\ (IsSuccessEvent(calls[i]) \/ calls[i].op = "setInterval") =>
            /\ \A j \in 1..(i - 1) :
                 IsCreation(calls[j]) => calls[j + 1] = SettledOk
            /\ calls[1].op = "kubernetesCreatePod"
            /\ Len(CallsOf("kubernetesCreateService")) = Len(servicesToCreate)
            /\ Len(CallsOf("openshiftCreateRoute")) = Len(routesToCreate)
       /\ calls[i].op = "setInterval" => IsSuccessEvent(calls[i - 1])
  /\ \A i \in DOMAIN servicesToCreate :
       i <= Len(CallsOf("kubernetesCreateService")) =>
         CallsOf("kubernetesCreateService")[i].body = servicesToCreate[i]
  /\ \A i \in DOMAIN routesToCreate :
       i <= Len(CallsOf("openshiftCreateRoute")) =>
         CallsOf("openshiftCreateRoute")[i].body = routesToCreate[i]
  /\ timerSeq > 0 => Deployed
  /\ deployPc \in {"kubernetesCreatePod", "kubernetesCreateService",
                   "openshiftCreateRoute"} =>
       calls[Len(calls)].op = deployPc

\* C3 happens: a call has created the pod, two Services and two Routes and
\* started the timer
BridgeCallsInOrderWitness ==
  /\ Deployed
  /\ timers # {}
  /\ Len(CallsOf("kubernetesCreateService")) = 2
  /\ Len(CallsOf("openshiftCreateRoute")) = 2

\* the current deployToKube call has gone through its catch block
Caught == \E i \in DOMAIN calls : calls[i] = SettledFailed

\* C5: when kubernetesCreatePod, a kubernetesCreateService or an
\* openshiftCreateRoute rejects, deployToKube makes no further creation
\* call, sets deployError to the error, leaves deployStarted and
\* deployFinished false, sends exactly one 'deployToKube' telemetry event,
\* which carries the errorMessage, and does not start the polling timer.
RejectionEndsDeployment ==
  Caught =>
    LET n == Len(calls)
    IN  /\ n >= 3
        /\ IsCreation(calls[n - 2])
        /\ calls[n - 1] = SettledFailed
        /\ IsErrorEvent(calls[n])
        /\ \A i \in 1..(n - 2) : calls[i] # SettledFailed
        /\ Len(SelectSeq(calls, LAMBDA c : c.op = "telemetryTrack")) = 1
        /\ deployError \in Errors
        /\ calls[n].properties.errorMessage = deployError.message
        /\ ~deployStarted
        /\ ~deployFinished
        /\ deployPc = "idle"
        /\ ~Deployed
        /\ timers = {}
        /\ timerSeq = 0

\* C5 happens: the creation of the second Service was rejected
RejectionEndsDeploymentWitness ==
  /\ Caught
  /\ Len(CallsOf("kubernetesCreateService")) = 2
  /\ Len(servicesToCreate) = 2
  /\ Truthy(deployInput.consoleURL) /\ deployInput.useRoutes

\* C7: a rejection of kubernetesListNamespaces or of
\* kubernetesReadNamespacedConfigMap does not end onMount and changes
\* neither bodyPod, defaultContextName, currentNamespace (which is set by
\* then) nor deployError; allNamespaces, respectively openshiftConsoleURL,
\* stays unset, and after a rejection of the config map read no
\* deployToKube call creates a Route.
MountRejectionsSwallowed ==
  [][ /\ "kubernetesListNamespaces" \in mountRejected' =>
           /\ mountPc' \in {"kubernetesReadNamespacedConfigMap", "done"}
           /\ ~IsDefined(allNamespaces')
      /\ "kubernetesReadNamespacedConfigMap" \in mountRejected' =>
           /\ mountPc' = "done"
           /\ openshiftConsoleURL' = "undefined"
           /\ \A i \in DOMAIN calls' : calls'[i].op # "openshiftCreateRoute"
           /\ createdRoutes' = <<>>
      /\ (mountRejected' # mountRejected /\ mountPc' # "aborted") =>
           /\ mountPc' # mountPc
           /\ Truthy(currentNamespace)
           /\ defaultContextName # "undefined"
           /\ IsDefined(bodyPod)
           /\ UNCHANGED <<bodyPod, defaultContextName, currentNamespace,
                          deployError, allNamespaces, openshiftConsoleURL>>
    ]_vars

\* C7 happens: the config map read was rejected and a later deployToKube
\* call, made with both options checked, created a Service and ran to its
\* end
MountRejectionsSwallowedWitness ==
  /\ mountRejected = {"kubernetesListNamespaces",
                      "kubernetesReadNamespacedConfigMap"}
  /\ mountPc = "done"
  /\ Deployed
  /\ deployInput.useServices /\ deployInput.useRoutes
  /\ Len(CallsOf("kubernetesCreateService")) >= 1

\* C4: whenever deployFinished is true, the displayed createdPod has phase
\* 'Running', also when several updatePod calls are in flight.
FinishedPodIsRunning ==
  deployFinished => IsDefined(createdPod) /\ createdPod.phase = "Running"

\* C8: once onDestroy has run no polling timer is active and no
\* kubernetesReadNamespacedPod call is started, whatever the component was
\* doing when it was destroyed.
NoPollingAfterDestroy == destroyed => timers = {} /\ ~readsAfterDestroy


(***************************************************************************)
(* stores/authenticationProviders: properties                              *)
(***************************************************************************)
AllFetchesResolved ==
  /\ authFetches # <<>>
  /\ \A i \in DOMAIN authFetches : authFetches[i].status = "resolved"

\* C6: once every fetchAuthenticationProvidersInfo that was started has
\* resolved, the authenticationProviders store holds the list returned by
\* the fetch of the most recent event; before any fetch resolves it holds
\* the empty list.
StoreHoldsLatestFetch ==
  /\ AllFetchesResolved =>
       authenticationProviders = authFetches[Len(authFetches)].answer
  /\ (\A i \in DOMAIN authFetches : authFetches[i].status # "resolved") =>
       authenticationProviders = <<>>

(***************************************************************************)
(* The Resources settings page: properties                                 *)
(***************************************************************************)
NewStartCalls ==
  { startCalls'[i] : i \in DOMAIN startCalls' \ DOMAIN startCalls }

QueuedFor(queue, provider, connection) ==
  { i \in DOMAIN queue : /\ queue[i].provider = provider.internalId
                         /\ queue[i].container = connection.name }

ConnectionKey(provider, connection) ==
  <<provider.name, "-", connection.name>>

IsStartOf(call, provider, connection) ==
  /\ call.kind = "startProviderConnectionLifecycle"
  /\ call.provider = provider.internalId
  /\ call.connection = connection

\* C9: window.startProviderConnectionLifecycle is called only by the
\* subscriber of providerInfos, only for a listed connection that had an
\* entry in restartingQueue and whose status is new or changed, with that
\* entry's loggerHandlerKey and at most once per queued entry; in the same
\* step the connection's entry of containerConnectionStatus becomes
\* {inProgress: true, action: 'restart', status}.  A connection whose
\* status is new or changed and that has no queued entry gets
\* {inProgress: false, action: undefined, status} and no call.
StartOnlyQueuedRestarts ==
  [][ /\ startCalls = SubSeq(startCalls', 1, Len(startCalls))
      /\ \A call \in NewStartCalls :
           \E rendered \in RenderedConnections' :
             LET key == ConnectionKey(rendered[1], rendered[2])
             IN  /\ IsStartOf(call, rendered[1], rendered[2])
                 /\ \E k \in DOMAIN subscriberTrace' :
                      subscriberTrace'[k].call = call
                 /\ \E i \in QueuedFor(restartingQueue, rendered[1],
                                       rendered[2]) :
                      restartingQueue[i].loggerHandlerKey =
                        call.loggerHandlerKey
                 /\ QueuedFor(restartingQueue', rendered[1],
                              rendered[2]) = {}
                 /\ \/ key \notin DOMAIN containerConnectionStatus
                    \/ "status" \notin DOMAIN containerConnectionStatus[key]
                    \/ containerConnectionStatus[key].status #
                         rendered[2].status
                 /\ containerConnectionStatus'[key] =
                      [inProgress |-> TRUE, action |-> "restart",
                       status |-> rendered[2].status]
      /\ \A i, j \in DOMAIN startCalls' :
           i # j => startCalls'[i].loggerHandlerKey #
                      startCalls'[j].loggerHandlerKey
      /\ \A rendered \in RenderedConnections' :
           LET key == ConnectionKey(rendered[1], rendered[2])
           IN  ( /\ \/ key \notin DOMAIN containerConnectionStatus
                    \/ "status" \notin DOMAIN containerConnectionStatus[key]
                    \/ containerConnectionStatus[key].status #
                         rendered[2].status
                 /\ QueuedFor(restartingQueue, rendered[1],
                              rendered[2]) = {} )
               => /\ containerConnectionStatus'[key] =
                       [inProgress |-> FALSE, action |-> "undefined",
                        status |-> rendered[2].status]
                  /\ \A call \in NewStartCalls :
                       ~IsStartOf(call, rendered[1], rendered[2])
    ]_vars

\* a queued restart was started for one listed connection while another
\* one, with no queued restart, was recorded as idle
StartOnlyQueuedRestartsWitness ==
  /\ startCalls # <<>>
  /\ \E r1, r2 \in RenderedConnections :
       LET k1 == ConnectionKey(r1[1], r1[2])
           k2 == ConnectionKey(r2[1], r2[2])
       IN  /\ k1 # k2
           /\ k1 \in DOMAIN containerConnectionStatus
           /\ k2 \in DOMAIN containerConnectionStatus
           /\ containerConnectionStatus[k1] =
                [inProgress |-> TRUE, action |-> "restart",
                 status |-> r1[2].status]
           /\ containerConnectionStatus[k2] =
                [inProgress |-> FALSE, action |-> "undefined",
                 status |-> r2[2].status]
           /\ \E k \in DOMAIN subscriberTrace :
                IsDefined(subscriberTrace[k].call)
                /\ IsStartOf(subscriberTrace[k].call, r1[1], r1[2])

(***************************************************************************)
(* PodDetails.svelte: properties                                           *)
(***************************************************************************)
MatchingEntries(pods) ==
  { i \in DOMAIN pods : /\ pods[i].Name = podName
                        /\ pods[i].engineId = engineId
                        /\ pods[i].kind = kind }

FirstOf(indices) == CHOOSE i \in indices : \A j \in indices : i <= j

\* C10: pod is only ever assigned from an entry of podsInfos whose Name,
\* engineId and kind equal the props; an emission with no such entry, or
\* whose first such entry getPodInfoUI cannot convert, leaves pod as it
\* was; any other emission replaces pod by the view of its first matching
\* entry, without the actionInProgress, the actionError and the
\* 'STARTING' or 'ERROR' status that the callbacks have set.
PodDerivedFromStore ==
  [][ /\ podLastOp' = "subscriber" =>
           LET found == MatchingEntries(podsInfos')
           IN  IF found = {} \/ "Id" \notin DOMAIN podsInfos'[FirstOf(found)]
               THEN pod' = pod
               ELSE LET entry == podsInfos'[FirstOf(found)]
                    IN  /\ pod'.id = entry.Id
                        /\ pod'.status = ToUpperCase(entry.Status)
                        /\ "actionInProgress" \notin DOMAIN pod'
                        /\ "actionError" \notin DOMAIN pod'
      /\ IsDefined(pod') =>
           /\ pod'.name = podName
           /\ pod'.engineId = engineId
           /\ pod'.kind = kind
    ]_vars

\* an emission with a matching entry has replaced a pod that errorCallback
\* had marked
PodDerivedFromStoreWitness ==
  /\ podLastOp = "subscriber"
  /\ IsDefined(podBefore)
  /\ "actionError" \in DOMAIN podBefore
  /\ podBefore.status = "ERROR"
  /\ IsDefined(pod)
  /\ "actionError" \notin DOMAIN pod
  /\ pod.status = "RUNNING"
  /\ MatchingEntries(podsInfos) # {}

==========================================================================
